---- MODULE Spec2Model ----
(***************************************************************************)
(* Model of buffer_overflow.py: the Filter -> Validator pipeline of        *)
(* process_request, its logging calls, the caller in main and the direct   *)
(* calls of Filter.filter_input / Validator.validate_input made by the     *)
(* unit tests and the performance test.                                    *)
(*                                                                         *)
(* A Python str is modelled as the sequence of its code points (ord).      *)
(***************************************************************************)
EXTENDS Integers, Sequences, FiniteSets, TLC

VARIABLES
    pc,         \* position of the running script
    user_input, \* argument of the current call
    filtered,   \* filtered_data of process_request
    validated,  \* validated_data of process_request
    error,      \* the exception raised in the try block, "none" if none
    result,     \* value returned by the last call (safe_data in main)
    outcome,    \* how the last call of process_request ended
    log,        \* records of level INFO or above handed to the logging
                \* module, oldest first
    mark,       \* Len(log) when the current call of process_request began
    round,      \* number of calls of process_request made so far
    prev,       \* value returned by the previous call of process_request
    report,     \* what main printed
    num_requests,   \* argument of run_performance_test
    success_count,  \* of run_performance_test
    failure_count   \* of run_performance_test

vars == <<pc, user_input, filtered, validated, error, result, outcome,
          log, mark, round, prev, report,
          num_requests, success_count, failure_count>>

-----------------------------------------------------------------------------
(* Configuration *)

MAX_INPUT_LENGTH == 25

\* Bounds of the explored inputs.
MaxCoreLen == 3   \* free characters of an input
MaxPad == 1       \* blanks appended after the free characters
MaxSlack == 5     \* run lengths from MAX_INPUT_LENGTH - MaxSlack upward
MaxOver == 2      \* characters of an input beyond MAX_INPUT_LENGTH
MaxRounds == 2    \* calls of process_request in one run
MaxRequests == 2  \* requests of one performance test

Upper == 65..90     \* A-Z
Lower == 97..122    \* a-z
Digits == 48..57    \* 0-9

\* The code points for which str.isspace() holds; str.strip() and the \s of
\* a str pattern both use this test.
Whitespace ==
    (9..13) \cup (28..32) \cup {133, 160, 5760} \cup (8192..8202)
        \cup {8232, 8233, 8239, 8287, 12288}

\* The character class [A-Za-z0-9\s\-_] of VALID_PATTERN.
CharClass(c) ==
    \/ c \in Upper
    \/ c \in Lower
    \/ c \in Digits
    \/ c \in Whitespace
    \/ c = 45
    \/ c = 95

\* Value of a variable that has not been assigned.
None == <<-1>>

-----------------------------------------------------------------------------
(* Inputs *)

\* a Z 7, space, no-break space, - _ @
Alphabet == {97, 90, 55, 32, 160, 45, 95, 64}

Rep(c, n) == [i \in 1..n |-> c]

RECURSIVE SeqsUpTo(_)
SeqsUpTo(n) ==
    IF n = 0 THEN {<< >>}
    ELSE LET shorter == SeqsUpTo(n - 1)
         IN  shorter \cup {Append(s, c) : s \in shorter, c \in Alphabet}

\* Lengths of the run of letters: none, or close to the limit.
RunLens == {0} \cup ((MAX_INPUT_LENGTH - MaxSlack)..(MAX_INPUT_LENGTH + 1))

\* Numbers of leading blanks: a few, or close to the limit.
LeadLens == (0..MaxPad) \cup ((MAX_INPUT_LENGTH - 1)..(MAX_INPUT_LENGTH + 1))

\* Leading blanks, a run of letters, free characters, trailing blanks.
MakeInput(l, n, core, t) == Rep(32, l) \o Rep(97, n) \o core \o Rep(32, t)

\* string.ascii_letters + string.digits + " -_"
letters == Upper \cup Lower \cup Digits \cup {32, 45, 95}

\* generate_random_string(length), for the lengths and characters explored.
generate_random_string(n, core) == MakeInput(0, n, core, 0)

\* The test data of run_performance_test: a string of 1..MAX_INPUT_LENGTH
\* letters, or one of 1..MAX_INPUT_LENGTH + 10 letters followed by "!@#".
TestData ==
    LET gen == {generate_random_string(n, core) :
                   n \in RunLens,
                   core \in {c \in SeqsUpTo(MaxCoreLen) :
                                \A i \in 1..Len(c) : c[i] \in letters}}
    IN  {s \in gen : Len(s) >= 1 /\ Len(s) <= MAX_INPUT_LENGTH}
          \cup {s \o <<33, 64, 35>> : s \in {g \in gen : Len(g) >= 1}}

-----------------------------------------------------------------------------
(* str.strip() *)

RECURSIVE LeftIdx(_, _)
LeftIdx(s, i) ==
    IF i <= Len(s) /\ s[i] \in Whitespace THEN LeftIdx(s, i + 1) ELSE i

RECURSIVE RightIdx(_, _, _)
RightIdx(s, j, lo) ==
    IF j >= lo /\ s[j] \in Whitespace THEN RightIdx(s, j - 1, lo) ELSE j

\* Removes at most one whitespace character from each end.
stripOne(s) ==
    LET i == IF Len(s) >= 1 /\ s[1] \in Whitespace THEN 2 ELSE 1
        j == IF Len(s) >= i /\ s[Len(s)] \in Whitespace
             THEN Len(s) - 1 ELSE Len(s)
    IN  SubSeq(s, i, j)

\* Removes leading whitespace only.
stripLeft(s) == SubSeq(s, LeftIdx(s, 1), Len(s))

strip(s) ==
    LET i == LeftIdx(s, 1)
        j == RightIdx(s, Len(s), i)
    IN  SubSeq(s, i, j)

-----------------------------------------------------------------------------
(* re.fullmatch(VALID_PATTERN, data) *)

\* Index after the longest run of class characters that starts at i.
RECURSIVE ClassRun(_, _)
ClassRun(s, i) ==
    IF i <= Len(s) /\ CharClass(s[i]) THEN ClassRun(s, i + 1) ELSE i

\* The pattern with * in place of +.
fullmatchStar(data) == ClassRun(data, 1) = Len(data) + 1

\* The pattern matched as a prefix (re.match) instead of the whole string.
fullmatchPrefix(data) == ClassRun(data, 1) >= 2

\* ^[A-Za-z0-9\s\-_]+$ : one or more class characters up to the end.
fullmatch(data) ==
    LET e == ClassRun(data, 1)
    IN  e >= 2 /\ e = Len(data) + 1

-----------------------------------------------------------------------------
(* Filter and Validator *)

Return(v) == [ok |-> TRUE, value |-> v, err |-> "none"]
Raise(e) == [ok |-> FALSE, value |-> None, err |-> e]

\* The length measured after trimming.
TooLongTrimmed(data) == Len(strip(data)) > MAX_INPUT_LENGTH

TooLong(data) == Len(data) > MAX_INPUT_LENGTH

filter_input(data) ==
    IF TooLong(data) THEN Raise("LengthExceeded")
    ELSE Return(strip(data))

validate_input(data) ==
    IF ~fullmatch(data) THEN Raise("InvalidCharacters")
    ELSE Return(data)

-----------------------------------------------------------------------------
(* Logging *)

\* A logging call that loses its record.
DropRecord(l, level, msg) == l

Emit(l, level, msg) == Append(l, [level |-> level, msg |-> msg])

-----------------------------------------------------------------------------
(* The script *)

Init ==
    /\ pc = "Start"
    /\ user_input = None
    /\ filtered = None
    /\ validated = None
    /\ error = "none"
    /\ result = None
    /\ outcome = "pending"
    /\ log = << >>
    /\ mark = 0
    /\ round = 0
    /\ prev = None
    /\ report = "none"
    /\ num_requests = 0
    /\ success_count = 0
    /\ failure_count = 0

\* The strings read or passed in: an input of the explored family.
ReadInput ==
    \E l \in LeadLens, n \in RunLens, core \in SeqsUpTo(MaxCoreLen),
       t \in 0..MaxPad :
       /\ l + n + Len(core) + t <= MAX_INPUT_LENGTH + MaxOver
       /\ user_input' = MakeInput(l, n, core, t)

\* python file.py: main() sets up logging, logs the start and reads the input.
MainStart ==
    /\ pc = "Start"
    /\ ReadInput
    /\ log' = Emit(Emit(log, "INFO", "logging started"), "INFO", "system started")
    /\ mark' = Len(log')
    /\ round' = 1
    /\ pc' = "Filtering"
    /\ UNCHANGED <<filtered, validated, error, result, outcome,
                   prev, report,
                   num_requests, success_count, failure_count>>

\* python file.py unittest: a test calls Filter.filter_input directly.
UnitFilter ==
    /\ pc = "Start"
    /\ ReadInput
    /\ LET r == filter_input(user_input')
       IN  /\ result' = r.value
           /\ error' = r.err
    /\ pc' = "UnitFilterDone"
    /\ UNCHANGED <<filtered, validated, outcome, log, mark, round,
                   prev, report,
                   num_requests, success_count, failure_count>>

\* python file.py unittest: a test calls Validator.validate_input directly.
UnitValidator ==
    /\ pc = "Start"
    /\ ReadInput
    /\ LET r == validate_input(user_input')
       IN  /\ result' = r.value
           /\ error' = r.err
    /\ pc' = "UnitValidatorDone"
    /\ UNCHANGED <<filtered, validated, outcome, log, mark, round,
                   prev, report,
                   num_requests, success_count, failure_count>>

\* filtered_data = Filter.filter_input(user_input)
FilterStep ==
    /\ pc = "Filtering"
    /\ LET r == filter_input(user_input)
       IN  IF r.ok
           THEN /\ filtered' = r.value
                /\ pc' = "LogFiltered"
                /\ UNCHANGED error
           ELSE /\ error' = r.err
                /\ pc' = "Handling"
                /\ UNCHANGED filtered
    /\ UNCHANGED <<user_input, validated, result, outcome, log, mark, round,
                   prev, report,
                   num_requests, success_count, failure_count>>

\* logging.info("filter succeeded: '%s'", filtered_data)
LogFiltered ==
    /\ pc = "LogFiltered"
    /\ log' = Emit(log, "INFO", "filter ok")
    /\ pc' = "Validating"
    /\ UNCHANGED <<user_input, filtered, validated, error, result, outcome,
                   mark, round, prev, report,
                   num_requests, success_count, failure_count>>

\* validated_data = Validator.validate_input(filtered_data)
ValidateStep ==
    /\ pc = "Validating"
    /\ LET r == validate_input(filtered)
       IN  IF r.ok
           THEN /\ validated' = r.value
                /\ pc' = "LogValidated"
                /\ UNCHANGED error
           ELSE /\ error' = r.err
                /\ pc' = "Handling"
                /\ UNCHANGED validated
    /\ UNCHANGED <<user_input, filtered, result, outcome, log, mark, round,
                   prev, report,
                   num_requests, success_count, failure_count>>

\* logging.info("validation succeeded"); return validated_data
LogValidated ==
    /\ pc = "LogValidated"
    /\ log' = Emit(log, "INFO", "validation ok")
    /\ result' = validated
    /\ outcome' = "Accepted"
    /\ pc' = "Returned"
    /\ UNCHANGED <<user_input, filtered, validated, error, mark, round, prev,
                   report,
                   num_requests, success_count, failure_count>>

\* except ValueError as error: logging.error(...); return ""
HandleError ==
    /\ pc = "Handling"
    /\ log' = Emit(log, "ERROR", error)
    /\ result' = << >>
    /\ outcome' = "Rejected"
    /\ pc' = "Returned"
    /\ UNCHANGED <<user_input, filtered, validated, error, mark, round, prev,
                   report,
                   num_requests, success_count, failure_count>>

\* if safe_data: print success else: print error
MainReport ==
    /\ pc = "Returned"
    /\ report' = IF result # << >> THEN "success" ELSE "error"
    /\ pc' = "Done"
    /\ UNCHANGED <<user_input, filtered, validated, error, result, outcome,
                   log, mark, round, prev,
                   num_requests, success_count, failure_count>>

\* An accepted value is passed to process_request again.
Resubmit ==
    /\ pc = "Returned"
    /\ outcome = "Accepted"
    /\ round < MaxRounds
    /\ prev' = result
    /\ user_input' = result
    /\ round' = round + 1
    /\ mark' = Len(log)
    /\ filtered' = None
    /\ validated' = None
    /\ error' = "none"
    /\ result' = None
    /\ outcome' = "pending"
    /\ pc' = "Filtering"
    /\ UNCHANGED <<log, report,
                   num_requests, success_count, failure_count>>

\* python file.py performancetest [n]: setup_logging, the start records and
\* the two records that open run_performance_test.
PerfStart ==
    /\ pc = "Start"
    /\ \E n \in 0..MaxRequests : num_requests' = n
    /\ log' = Emit(Emit(Emit(Emit(log, "INFO", "logging started"),
                              "INFO", "performance test launched"),
                         "INFO", "performance test begins"),
                    "INFO", "number of requests")
    /\ pc' = "PerfLoop"
    /\ UNCHANGED <<user_input, filtered, validated, error, result, outcome,
                   mark, round, prev, report, success_count, failure_count>>

\* One turn of the loop over test_data: filter, validate, count.  The
\* logging.debug of the except clause is below the logger's level INFO.
PerfRequest ==
    /\ pc = "PerfLoop"
    /\ success_count + failure_count < num_requests
    /\ \E data \in TestData :
          LET f == filter_input(data)
          IN  IF f.ok /\ validate_input(f.value).ok
              THEN /\ success_count' = success_count + 1
                   /\ UNCHANGED failure_count
              ELSE /\ failure_count' = failure_count + 1
                   /\ UNCHANGED success_count
    /\ UNCHANGED <<pc, user_input, filtered, validated, error, result,
                   outcome, log, mark, round, prev, report, num_requests>>

\* After the loop: the result records.  success_count / num_requests raises
\* ZeroDivisionError for num_requests = 0, after three of the six records.
PerfFinish ==
    /\ pc = "PerfLoop"
    /\ success_count + failure_count = num_requests
    /\ LET three == Emit(Emit(Emit(log, "INFO", "performance results"),
                              "INFO", "total time"),
                         "INFO", "throughput")
       IN  IF num_requests = 0
           THEN /\ log' = three
                /\ error' = "ZeroDivisionError"
                /\ pc' = "PerfCrashed"
           ELSE /\ log' = Emit(Emit(Emit(three, "INFO", "successful requests"),
                                    "INFO", "failed requests"),
                               "INFO", "rule")
                /\ pc' = "PerfDone"
                /\ UNCHANGED error
    /\ UNCHANGED <<user_input, filtered, validated, result, outcome, mark,
                   round, prev, report, num_requests, success_count,
                   failure_count>>

\* python file.py <anything else>: the usage text is printed.
Usage ==
    /\ pc = "Start"
    /\ pc' = "UsageDone"
    /\ UNCHANGED <<user_input, filtered, validated, error, result, outcome,
                   log, mark, round, prev, report, num_requests,
                   success_count, failure_count>>

Next ==
    \/ MainStart
    \/ UnitFilter
    \/ UnitValidator
    \/ PerfStart
    \/ PerfRequest
    \/ PerfFinish
    \/ Usage
    \/ FilterStep
    \/ LogFiltered
    \/ ValidateStep
    \/ LogValidated
    \/ HandleError
    \/ MainReport
    \/ Resubmit

Spec == Init /\ [][Next]_vars

-----------------------------------------------------------------------------
(* A diagnostic sink one of whose handlers may raise.  The logging module  *)
(* has the record, and the handlers before the raising one have written    *)
(* it, when the exception reaches process_request, whose try block catches *)
(* ValueError only.                                                        *)

SinkErrors == {"ValueError", "OSError"}

\* logging.info after the filter raises inside the try block.
LogFilteredRaises ==
    /\ pc = "LogFiltered"
    /\ log' = Emit(log, "INFO", "filter ok")
    /\ \E exc \in SinkErrors :
          IF exc = "ValueError"
          THEN /\ error' = "SinkValueError"
               /\ pc' = "Handling"
               /\ UNCHANGED outcome
          ELSE /\ error' = exc
               /\ outcome' = "Crashed"
               /\ pc' = "Crashed"
    /\ UNCHANGED <<user_input, filtered, validated, result, mark, round,
                   prev, report,
                   num_requests, success_count, failure_count>>

\* logging.info after the validation raises inside the try block.
LogValidatedRaises ==
    /\ pc = "LogValidated"
    /\ log' = Emit(log, "INFO", "validation ok")
    /\ \E exc \in SinkErrors :
          IF exc = "ValueError"
          THEN /\ error' = "SinkValueError"
               /\ pc' = "Handling"
               /\ UNCHANGED outcome
          ELSE /\ error' = exc
               /\ outcome' = "Crashed"
               /\ pc' = "Crashed"
    /\ UNCHANGED <<user_input, filtered, validated, result, mark, round,
                   prev, report,
                   num_requests, success_count, failure_count>>

\* logging.error raises inside the except clause: the exception leaves
\* process_request.
HandleErrorRaises ==
    /\ pc = "Handling"
    /\ log' = Emit(log, "ERROR", error)
    /\ \E exc \in SinkErrors : error' = exc
    /\ outcome' = "Crashed"
    /\ pc' = "Crashed"
    /\ UNCHANGED <<user_input, filtered, validated, result, mark, round,
                   prev, report,
                   num_requests, success_count, failure_count>>

NextSink ==
    \/ Next
    \/ LogFilteredRaises
    \/ LogValidatedRaises
    \/ HandleErrorRaises

SpecSink == Init /\ [][NextSink]_vars

-----------------------------------------------------------------------------
(* Vocabulary of the properties *)

AllowList == Upper \cup Lower \cup Digits \cup Whitespace \cup {45, 95}

NonWs(s) == {i \in 1..Len(s) : s[i] \notin Whitespace}
SetMin(S) == CHOOSE x \in S : \A y \in S : x <= y
SetMax(S) == CHOOSE x \in S : \A y \in S : x >= y

\* s without its leading and trailing whitespace: the characters from the
\* first to the last non-whitespace one.
TrimOf(s) ==
    IF NonWs(s) = {} THEN << >>
    ELSE SubSeq(s, SetMin(NonWs(s)), SetMax(NonWs(s)))

AllAllowed(s) == \A i \in 1..Len(s) : s[i] \in AllowList
MatchesPattern(s) == Len(s) >= 1 /\ AllAllowed(s)
NoEdgeWs(s) == s = << >> \/ (s[1] \notin Whitespace /\ s[Len(s)] \notin Whitespace)

Finished == outcome \in {"Accepted", "Rejected"}
Emitted == SubSeq(log, mark + 1, Len(log))

\* Whether the two stages, taken alone, let s through.
PassesBoth(s) ==
    LET f == filter_input(s)
    IN  f.ok /\ validate_input(f.value).ok

HasForeign(s) == \E i \in 1..Len(s) : s[i] \notin AllowList

-----------------------------------------------------------------------------
(* Properties *)

\* C1 as stated: whenever the trimmed input is at most MAX_INPUT_LENGTH long
\* and fully matches the pattern, process_request returns the trimmed input,
\* however much whitespace surrounds it.
C1_AcceptsByTrimmedLength ==
    (Finished /\ Len(TrimOf(user_input)) <= MAX_INPUT_LENGTH
              /\ MatchesPattern(TrimOf(user_input)))
        => (outcome = "Accepted" /\ result = TrimOf(user_input))

\* C1 amended: whenever the input itself (before trimming) is at most
\* MAX_INPUT_LENGTH long and its trimmed form fully matches the pattern,
\* process_request returns the trimmed input.
C1_AcceptsWithinLength ==
    (Finished /\ Len(user_input) <= MAX_INPUT_LENGTH
              /\ MatchesPattern(TrimOf(user_input)))
        => (outcome = "Accepted" /\ result = TrimOf(user_input))

\* C1 witness: an input with surrounding whitespace was accepted as its
\* trimmed form.
C1_Witness ==
    /\ outcome = "Accepted"
    /\ round = 1
    /\ Len(user_input) = MAX_INPUT_LENGTH
    /\ Len(result) < Len(user_input)
    /\ result = TrimOf(user_input)

\* C2: an input longer than MAX_INPUT_LENGTH before trimming makes
\* Filter.filter_input fail with the length error and process_request return
\* "" as a rejection; it is never accepted.
C2_LongInputRejected ==
    Len(user_input) > MAX_INPUT_LENGTH =>
        /\ pc = "UnitFilterDone" => error = "LengthExceeded"
        /\ pc \in {"LogFiltered", "Validating", "LogValidated"} => FALSE
        /\ Finished =>
              /\ outcome = "Rejected"
              /\ error = "LengthExceeded"
              /\ result = << >>

\* C2 witness: an over-long input whose trimmed form is short and valid was
\* rejected for its length.
C2_Witness ==
    /\ outcome = "Rejected"
    /\ error = "LengthExceeded"
    /\ Len(user_input) > MAX_INPUT_LENGTH
    /\ Len(TrimOf(user_input)) <= MAX_INPUT_LENGTH
    /\ MatchesPattern(TrimOf(user_input))

\* C3: an input whose trimmed form holds a character outside the allow-list
\* is rejected: process_request returns "", never the input or its trimmed
\* form.
C3_ForeignCharRejected ==
    (Finished /\ HasForeign(TrimOf(user_input))) =>
        /\ outcome = "Rejected"
        /\ result = << >>
        /\ result # user_input
        /\ result # TrimOf(user_input)

\* C3 witness: an input short enough for the filter was rejected by the
\* validator for a foreign character that follows allowed ones.
C3_Witness ==
    /\ outcome = "Rejected"
    /\ error = "InvalidCharacters"
    /\ HasForeign(TrimOf(user_input))
    /\ user_input[1] \in AllowList \ Whitespace

\* C4 as stated: the empty input passes both stages, ends Accepted with no
\* failure record and returns "".
C4_EmptyAccepted ==
    (Finished /\ user_input = << >>) =>
        /\ outcome = "Accepted"
        /\ result = << >>
        /\ \A i \in 1..Len(Emitted) : Emitted[i].level # "ERROR"

\* C4 amended: the empty input passes the Filter stage (filtered to "") and
\* fails the Validator stage with the invalid-characters error; the call
\* ends Rejected with an ERROR record and returns "" as the sentinel.
C4_EmptyRejected ==
    (Finished /\ user_input = << >>) =>
        /\ filtered = << >>
        /\ outcome = "Rejected"
        /\ error = "InvalidCharacters"
        /\ result = << >>
        /\ Emitted[Len(Emitted)].level = "ERROR"

\* C4 witness: the empty input went through process_request.
C4_Witness ==
    /\ user_input = << >>
    /\ round = 1
    /\ filtered = << >>
    /\ outcome = "Rejected"

\* C5 as stated: every call of process_request has emitted exactly one
\* record when it returns.
C5_ExactlyOneRecord ==
    Finished => Len(Emitted) = 1

\* C5 amended: a call has emitted one or two records when it returns: a
\* length rejection exactly one ERROR record; a character rejection the INFO
\* record of the filter and then one ERROR record; a success the INFO record
\* of the filter and then the INFO record of the validation.  Every
\* rejection emits exactly one ERROR record and every success none.
C5_RecordsPerCall ==
    Finished =>
        /\ (outcome = "Rejected" /\ error = "LengthExceeded") =>
              Emitted = <<[level |-> "ERROR", msg |-> "LengthExceeded"]>>
        /\ (outcome = "Rejected" /\ error = "InvalidCharacters") =>
              Emitted = <<[level |-> "INFO", msg |-> "filter ok"],
                          [level |-> "ERROR", msg |-> "InvalidCharacters"]>>
        /\ outcome = "Accepted" =>
              Emitted = <<[level |-> "INFO", msg |-> "filter ok"],
                          [level |-> "INFO", msg |-> "validation ok"]>>
        /\ outcome = "Rejected" => error \in {"LengthExceeded", "InvalidCharacters"}

\* C5 witness: a call returned after a character rejection, having emitted
\* two records.
C5_Witness ==
    /\ outcome = "Rejected"
    /\ error = "InvalidCharacters"
    /\ Len(Emitted) = 2

\* C6: whether the logging calls succeed or raise, a call that returns
\* returns an input that passes Filter and Validator as accepted and any
\* other input as rejected.
C6_SinkIndependent ==
    Finished =>
        outcome = (IF PassesBoth(user_input) THEN "Accepted" ELSE "Rejected")

\* C7 as stated: Validator.validate_input(x) returns x for every x made of
\* allow-list characters only and fails for every other x.
C7_ValidatorAllAllowed ==
    pc = "UnitValidatorDone" =>
        IF AllAllowed(user_input)
        THEN error = "none" /\ result = user_input
        ELSE error = "InvalidCharacters" /\ result = None

\* C7 amended: Validator.validate_input(x) returns x unchanged for every
\* non-empty x made of allow-list characters only and fails with the
\* invalid-characters error for every other x, the empty string included.
C7_ValidatorNonEmptyAllowed ==
    pc = "UnitValidatorDone" =>
        IF Len(user_input) >= 1 /\ AllAllowed(user_input)
        THEN error = "none" /\ result = user_input
        ELSE error = "InvalidCharacters" /\ result = None

\* C7 witness: the validator returned a string with whitespace at both edges
\* as it was.
C7_Witness ==
    /\ pc = "UnitValidatorDone"
    /\ error = "none"
    /\ Len(user_input) >= 3
    /\ user_input[1] \in Whitespace
    /\ user_input[Len(user_input)] \in Whitespace
    /\ result = user_input

\* C8: for an input of at most MAX_INPUT_LENGTH characters Filter.filter_input
\* returns the input without its leading and trailing whitespace: no
\* whitespace at either edge, everything from the first to the last
\* non-whitespace character kept in order.
C8_FilterTrimsEdgesOnly ==
    Len(user_input) <= MAX_INPUT_LENGTH =>
        /\ pc = "UnitFilterDone" =>
              /\ error = "none"
              /\ NoEdgeWs(result)
              /\ result = TrimOf(user_input)
        /\ pc = "LogFiltered" =>
              /\ NoEdgeWs(filtered)
              /\ filtered = TrimOf(user_input)

\* C8 witness: the filter trimmed both edges of an input of MAX_INPUT_LENGTH
\* characters and kept a run of two whitespace characters inside it.
C8_Witness ==
    /\ pc = "UnitFilterDone"
    /\ error = "none"
    /\ Len(user_input) = MAX_INPUT_LENGTH
    /\ user_input[1] \in Whitespace
    /\ user_input[Len(user_input)] \in Whitespace
    /\ \E i \in 1..(Len(result) - 1) :
          result[i] \in Whitespace /\ result[i + 1] \in Whitespace

\* C9: the value process_request returned for an accepted input is accepted
\* when passed in again and comes back the same.
C9_Idempotent ==
    (Finished /\ round >= 2) => (outcome = "Accepted" /\ result = prev)

\* C9 witness: a second call, made on the accepted output of the first,
\* returned a value of MAX_INPUT_LENGTH - 1 characters.
C9_Witness ==
    /\ round = 2
    /\ outcome = "Accepted"
    /\ Len(result) = MAX_INPUT_LENGTH - 1

\* C10: process_request returns "" exactly when the input was rejected (the
\* except branch ran and logged an ERROR record); an accepted input yields a
\* non-empty value, so main reports an error exactly for rejected inputs.
C10_EmptyIffRejected ==
    /\ Finished =>
          /\ (result = << >>) <=> (outcome = "Rejected")
          /\ outcome = "Rejected" =>
                (error # "none" /\ Emitted[Len(Emitted)].level = "ERROR")
          /\ outcome = "Accepted" =>
                (error = "none" /\ Len(result) >= 1)
    /\ pc = "Done" =>
          /\ (report = "error") <=> (outcome = "Rejected")
          /\ (report = "success") <=> (outcome = "Accepted")

\* C10 witness: main reported success for an accepted, non-empty value.
C10_Witness ==
    /\ pc = "Done"
    /\ report = "success"
    /\ outcome = "Accepted"
    /\ result # << >>

====
